---- MODULE Spec2Model ----
(***************************************************************************)
(* The Dusky speech-to-text daemon (dusky_stt_main.py): the FifoReader     *)
(* thread that reads newline-delimited paths from a named pipe into a      *)
(* bounded queue, and the main thread of DuskySTTDaemon.start that         *)
(* dequeues and transcribes them, unloads the model when idle and cleans   *)
(* the filesystem artifacts up on stop.                                    *)
(***************************************************************************)
EXTENDS Integers, Sequences, FiniteSets, TLC

(* ---------------- program constants ---------------- *)
QUEUE_SIZE == 5
IDLE_TIMEOUT == 10
GET_TIMEOUT == 1
READ_SIZE == 4096

FIFO_PATH == "FIFO_PATH"
PID_FILE == "PID_FILE"
READY_FILE == "READY_FILE"

(* ---------------- bounds of the model ---------------- *)
MaxWrites == 6
MaxStops == 2

(* ---------------- values ---------------- *)
None == "None"
Loaded == "Loaded"

\* filepath outside an iteration of the loop of start
NoPath == <<>>

Artifacts == {FIFO_PATH, PID_FILE, READY_FILE}

\* time.time() - self.last_used is kept as one number of seconds, idle; every
\* value above IDLE_TIMEOUT behaves alike and is kept as Expired
Expired == IDLE_TIMEOUT + 1

\* the paths the clients write, in the order they write them: different
\* paths, and paths written again, at once or later
Streams == {<<"a", "b", "b", "c", "a", "d", "c", "e">>}

\* the bytes of one client write: one path and a newline
LineOf(path) == <<path, "\n">>

\* what the clients send when they write as they like: two lines, a path
\* of two characters inside blanks, and a blank line, a byte that is no
\* UTF-8 and a line the carriage return ends
ByteStrings == {<<"a", "\n", "b", "\n">>,
                <<" ", "a", "b", " ", "\n">>,
                <<" ", "\n", "?", "c", "\r", "d">>}

\* the ways of cutting the bytes b into writes that follow each other
RECURSIVE Splits(_)
Splits(b) ==
  IF b = <<>> THEN {<<>>}
  ELSE UNION {{<<SubSeq(b, 1, k)>> \o r :
                  r \in Splits(SubSeq(b, k + 1, Len(b)))} : k \in 1..Len(b)}

\* the writes of the clients that write as they like, in order
ByteStreams == UNION {Splits(b) : b \in ByteStrings}

\* how long a call of onnx_asr.load_model or of model.recognize takes: no
\* time to speak of, or longer than IDLE_TIMEOUT
Durations == {0, IDLE_TIMEOUT + 1}

\* what model.recognize returns when it does not raise: a string, or a list
\* of strings
Results == {[list |-> FALSE, val |-> <<" ">>],
            [list |-> FALSE, val |-> <<"h", "i", "\n">>],
            [list |-> TRUE, val |-> << <<"\n">>, <<"h", "i">> >>],
            [list |-> TRUE, val |-> << <<" ", "h", "i">>, <<>> >>]}

\* the characters str.strip removes, and those str.splitlines breaks at: the
\* line feed, and the carriage return for the other boundaries (a carriage
\* return and a line feed together are one boundary)
Whitespace == {" ", "\n", "\r"}
LineBreaks == {"\n", "\r"}
Invalid == {"?"}

\* what Path(filepath).exists() does: it returns True or False, or, where
\* stat fails with another error than a missing path (a name too long, a
\* directory that may not be searched), raises OSError
ExistsOutcomes == {"True", "False", "OSError"}

\* atStop before the first stop signal
NotStopped == [inGet |-> FALSE, got |-> 0]

VARIABLES
  fs,            \* the three paths: "absent", "fifo" or "file"
  running,       \* DuskySTTDaemon.running
  active,        \* FifoReader.active
  path_queue,    \* queue.Queue(maxsize=QUEUE_SIZE)
  model,         \* DuskySTTDaemon.model
  idle,          \* time.time() - DuskySTTDaemon.last_used
  mpc,           \* position of the main thread
  lpc,           \* position of the FifoReader thread
  fd,            \* TRUE while the FifoReader holds the pipe open
  pipe,          \* bytes written to the pipe and not yet read
  data,          \* FifoReader.run: data
  pending,       \* FifoReader.run: the lines of the burst not yet put
  filepath,      \* start: filepath, NoPath outside an iteration
  text,          \* transcribe: text
  ci,            \* cleanup: index of the path the for loop is at
  stops,         \* number of stop signals delivered
  writes,        \* number of client writes
  stream,        \* the paths the clients write, in order
  enq,           \* history: the items put, in order
  deq,           \* history: the items got, in order
  proc,          \* history: the items brought to an outcome, in order
  inflight,      \* history: the items got and not yet brought to an outcome
  calls,         \* history: the external calls made since the last get
  outcome,       \* history: the outcome of the item of the last get
  why,           \* history: why the model is absent, or was when the item
                 \* in flight was got
  cleanups,      \* history: number of executions of cleanup
  removed,       \* history: per path, the number of times cleanup removed it
  unlinkRaised,  \* history: an unlink of cleanup raised
  stopInFlight,  \* history: a stop signal came while an item was in flight
  atStop         \* history: whether the main thread was in path_queue.get,
                 \* and how many items it had got, when the first stop
                 \* signal came

vars == <<fs, running, active, path_queue, model, idle, mpc, lpc, fd,
          pipe, data, pending, filepath, text, ci, stops, writes, stream, enq,
          deq,
          proc, inflight, calls, outcome, why, cleanups, removed, unlinkRaised,
          stopInFlight, atStop>>

listenerVars == <<lpc, fd, data, pending>>
histVars == <<stream, enq, deq, proc, inflight, calls, outcome, why, cleanups,
              removed, unlinkRaised, stopInFlight, atStop>>

(* ---------------- pure helpers ---------------- *)
Min(a, b) == IF a < b THEN a ELSE b

Count(s, x) == Cardinality({i \in 1..Len(s) : s[i] = x})

\* bytes.decode('utf-8', errors='ignore'): invalid bytes are dropped
Decode(d) == SelectSeq(d, LAMBDA c : c \notin Invalid)

\* str.splitlines()
RECURSIVE SplitLines(_)
SplitLines(s) ==
  IF s = <<>> THEN <<>>
  ELSE LET brk == {i \in 1..Len(s) : s[i] \in LineBreaks}
       IN IF brk = {} THEN <<s>>
          ELSE LET i == CHOOSE j \in brk : \A k \in brk : j <= k
                   crlf == /\ s[i] = "\r"
                           /\ i < Len(s)
                           /\ s[i + 1] = "\n"
                   n == IF crlf THEN i + 2 ELSE i + 1
               IN <<SubSeq(s, 1, i - 1)>> \o SplitLines(SubSeq(s, n, Len(s)))

\* Strip as str.lstrip would do it
LStrip(s) ==
  LET keep == {i \in 1..Len(s) : s[i] \notin Whitespace}
  IN IF keep = {} THEN <<>>
     ELSE SubSeq(s, CHOOSE j \in keep : \A k \in keep : j <= k, Len(s))

\* str.strip()
Strip(s) ==
  LET keep == {i \in 1..Len(s) : s[i] \notin Whitespace}
  IN IF keep = {} THEN <<>>
     ELSE LET lo == CHOOSE j \in keep : \A k \in keep : j <= k
              hi == CHOOSE j \in keep : \A k \in keep : j >= k
          IN SubSeq(s, lo, hi)

\* Normalize without the strip
NormalizeNoStrip(res) == IF res.list THEN res.val[1] ELSE res.val

\* transcribe: text = (res[0] if isinstance(res, list) else res).strip()
Normalize(res) == Strip(IF res.list THEN res.val[1] ELSE res.val)

RECURSIVE StripAll(_)
StripAll(ls) ==
  IF ls = <<>> THEN <<>> ELSE <<Strip(Head(ls))>> \o StripAll(Tail(ls))

\* FifoReader.run: the clean paths of one burst, in order
CleanPaths(d) ==
  SelectSeq(StripAll(SplitLines(Decode(d))), LAMBDA p : p # <<>>)

\* Path.unlink(missing_ok): the kind of the path afterwards, and whether
\* FileNotFoundError is raised
UnlinkRaises(kind, missing_ok) == kind = "absent" /\ ~missing_ok

\* CleanupUnlinkRaises with a plain p.unlink()
CleanupUnlinkStrict(kind) == UnlinkRaises(kind, FALSE)

\* cleanup: p.unlink(missing_ok=True)
CleanupUnlinkRaises(kind) == UnlinkRaises(kind, TRUE)

\* IdleExpired without the test of self.model
IdleExpiredNoGuard(m, i) == i > IDLE_TIMEOUT

\* check_idle: the condition of the if
IdleExpired(m, i) == m # None /\ i > IDLE_TIMEOUT

\* ModelAfterFailure without the assignment
ModelKept(m) == m

\* transcribe, except branch: self.model = None
ModelAfterFailure(m) == None

\* time.time() - self.last_used once d more seconds have passed
Elapse(i, d) == Min(i + d, Expired)

\* time.time() - self.last_used after a queue.get that timed out
AfterTimeout(i) == Elapse(i, GET_TIMEOUT)

(* ---------------- initial state ---------------- *)
\* the state after DuskySTTDaemon() with which start begins, the clients
\* being about to write one of the streams of S
InitOf(S) ==
  /\ fs \in {[p \in Artifacts |-> IF p = FIFO_PATH THEN k ELSE "absent"] :
               k \in {"absent", "fifo", "file"}}
  /\ running = TRUE
  /\ active = TRUE
  /\ path_queue = <<>>
  /\ model = None
  /\ idle = Expired
  /\ mpc = "start"
  /\ lpc = "new"
  /\ fd = FALSE
  /\ pipe = <<>>
  /\ data = <<>>
  /\ pending = <<>>
  /\ filepath = NoPath
  /\ text = <<>>
  /\ ci = 0
  /\ stops = 0
  /\ writes = 0
  /\ stream \in S
  /\ enq = <<>>
  /\ deq = <<>>
  /\ proc = <<>>
  /\ inflight = <<>>
  /\ calls = <<>>
  /\ outcome = "none"
  /\ why = "never"
  /\ cleanups = 0
  /\ removed = [p \in Artifacts |-> 0]
  /\ unlinkRaised = FALSE
  /\ stopInFlight = FALSE
  /\ atStop = NotStopped

Init == InitOf(Streams)

(* ---------------- the main thread: DuskySTTDaemon.start ---------------- *)
\* LoopHead of a loop that does not read self.running
LoopHeadIgnoresStop(r) == "get"

\* start: while self.running, read where the previous statement ends: the
\* loop waits in path_queue.get, or it is left and the finally runs cleanup
LoopHead(r) == IF r THEN "get" ELSE "cleanup"

\* start: the signal handlers, then PID_FILE.write_text
StartPid ==
  /\ mpc = "start"
  /\ fs' = [fs EXCEPT ![PID_FILE] = "file"]
  /\ mpc' = "fixfifo"
  /\ UNCHANGED <<running, active, path_queue, model, idle, pipe, filepath,
                 text, ci, stops, writes>>
  /\ UNCHANGED listenerVars
  /\ UNCHANGED histVars

\* start: a stale file at the pipe's path that is no pipe is removed
StartFixFifo ==
  /\ mpc = "fixfifo"
  /\ fs' = IF fs[FIFO_PATH] = "file" THEN [fs EXCEPT ![FIFO_PATH] = "absent"]
           ELSE fs
  /\ mpc' = "spawn"
  /\ UNCHANGED <<running, active, path_queue, model, idle, pipe, filepath,
                 text, ci, stops, writes>>
  /\ UNCHANGED listenerVars
  /\ UNCHANGED histVars

\* start: self.fifo_reader.start()
StartListener ==
  /\ mpc = "spawn"
  /\ lpc' = "run"
  /\ mpc' = "ready"
  /\ UNCHANGED <<fs, running, active, path_queue, model, idle, pipe, filepath,
                 text, ci, stops, writes, fd, data, pending>>
  /\ UNCHANGED histVars

\* start: READY_FILE.touch()
StartReady ==
  /\ mpc = "ready"
  /\ fs' = [fs EXCEPT ![READY_FILE] = "file"]
  /\ mpc' = LoopHead(running)
  /\ UNCHANGED <<running, active, path_queue, model, idle, pipe, filepath,
                 text, ci, stops, writes>>
  /\ UNCHANGED listenerVars
  /\ UNCHANGED histVars

\* Get as a queue.LifoQueue would do it
LifoGet(q) == [item |-> q[Len(q)], rest |-> SubSeq(q, 1, Len(q) - 1)]

\* queue.Queue.get on a queue that holds something: the item got and the
\* queue left
Get(q) == [item |-> Head(q), rest |-> Tail(q)]

\* AfterGet with transcribe handed to a thread of its own
AfterGetAsync(ex, r) == LoopHead(r)

\* AfterGet without the test of Path(filepath).exists()
AfterGetNoCheck(ex, r) == "get_model"

\* start: if Path(filepath).exists(): self.transcribe(filepath), and
\* task_done after it: where the thread is after the get. An OSError of
\* exists() is not caught by except queue.Empty: the loop is left and the
\* finally runs cleanup
AfterGet(ex, r) ==
  CASE ex = "True" -> "get_model"
    [] ex = "False" -> LoopHead(r)
    [] ex = "OSError" -> "cleanup"

\* start: path_queue.get returns an item; Path(filepath).exists() does ex.
\* A missing file is discarded at once (task_done); an OSError ends the
\* iteration and the loop.
GetItem ==
  /\ mpc = "get"
  /\ path_queue # <<>>
  /\ \E ex \in ExistsOutcomes :
       LET item == Get(path_queue).item IN
       /\ path_queue' = Get(path_queue).rest
       /\ deq' = Append(deq, item)
       /\ calls' = <<>>
       /\ mpc' = AfterGet(ex, running)
       /\ filepath' = IF mpc' = "get_model" THEN item ELSE NoPath
       /\ IF ex = "True"
          THEN /\ inflight' = Append(inflight, item)
               /\ outcome' = "none"
               /\ proc' = proc
          ELSE /\ inflight' = inflight
               /\ outcome' = IF ex = "False" THEN "missing" ELSE "error"
               /\ proc' = Append(proc, item)
  /\ UNCHANGED <<fs, running, active, model, idle, pipe, text, ci, stops,
                 writes, stream, enq, why, cleanups, removed, unlinkRaised,
                 stopInFlight, atStop>>
  /\ UNCHANGED listenerVars

\* start: path_queue.get times out (queue.Empty), then check_idle
GetEmpty ==
  /\ mpc = "get"
  /\ path_queue = <<>>
  /\ idle' = AfterTimeout(idle)
  /\ IF IdleExpired(model, idle')
     THEN /\ model' = None
          /\ calls' = Append(calls, "unload")
          /\ why' = "idle"
     ELSE UNCHANGED <<model, calls, why>>
  /\ mpc' = LoopHead(running)
  /\ UNCHANGED <<fs, running, active, path_queue, pipe, filepath, text, ci,
                 stops, writes, stream, enq, deq, proc, inflight, outcome,
                 cleanups, removed, unlinkRaised, stopInFlight, atStop>>
  /\ UNCHANGED listenerVars

\* the end of one iteration for the item in filepath: transcribe returns,
\* then task_done
Finish(o) ==
  /\ proc' = Append(proc, filepath)
  /\ inflight' = IF inflight = <<>> THEN <<>> ELSE Tail(inflight)
  /\ outcome' = o
  /\ filepath' = NoPath
  /\ text' = <<>>
  /\ mpc' = LoopHead(running)

\* transcribe: the except branch of the load and inference block
InferenceError ==
  /\ model' = ModelAfterFailure(model)
  /\ why' = "failed"
  /\ Finish("failed")

\* transcribe: get_model; ok is whether onnx_asr.load_model returns, d how
\* long it takes
GetModel ==
  /\ mpc = "get_model"
  /\ IF model # None
     THEN /\ idle' = 0
          /\ mpc' = "recognize"
          /\ UNCHANGED <<model, calls, why, proc, inflight, outcome, filepath,
                         text>>
     ELSE \E ok \in BOOLEAN, d \in Durations :
            /\ idle' = Elapse(0, d)
            /\ IF ok
               THEN /\ model' = Loaded
                    /\ calls' = Append(calls, "load")
                    /\ mpc' = "recognize"
                    /\ UNCHANGED <<why, proc, inflight, outcome, filepath,
                                   text>>
               ELSE /\ calls' = calls \o <<"load", "notify_critical">>
                    /\ InferenceError
  /\ UNCHANGED <<fs, running, active, path_queue, pipe, ci, stops, writes,
                 stream, enq, deq, cleanups, removed, unlinkRaised,
                 stopInFlight, atStop>>
  /\ UNCHANGED listenerVars

\* transcribe: model.recognize; ok is whether it returns, res what it
\* returns, d how long it takes
Recognize ==
  /\ mpc = "recognize"
  /\ \E ok \in BOOLEAN, res \in Results, d \in Durations :
       /\ idle' = Elapse(idle, d)
       /\ IF ~ok
          THEN /\ calls' = calls \o <<"recognize", "notify_critical">>
               /\ InferenceError
          ELSE /\ calls' = Append(calls, "recognize")
               /\ model' = model
               /\ IF Normalize(res) = <<>>
                  THEN /\ why' = "never"
                       /\ Finish("empty")
                  ELSE /\ text' = Normalize(res)
                       /\ mpc' = "output"
                       /\ UNCHANGED <<why, proc, inflight, outcome, filepath>>
  /\ UNCHANGED <<fs, running, active, path_queue, pipe, ci, stops,
                 writes, stream, enq, deq, cleanups, removed, unlinkRaised,
                 stopInFlight, atStop>>
  /\ UNCHANGED listenerVars

\* what wl-copy does: it is not in PATH, it exits with a status that is not
\* zero, or it succeeds
SinkOutcomes == {"ok", "missing", "exit_nonzero"}

\* OutputCalls with the completion notified after the try, whatever happened
OutputCallsNotifyAfter(r) ==
  CASE r = "ok" -> <<"wl-copy", "notify">>
    [] r = "missing" -> <<"notify_critical", "notify">>
    [] r = "exit_nonzero" -> <<"wl-copy", "notify_critical", "notify">>

\* transcribe: the calls of the output block: wl-copy when shutil.which finds
\* it, notify("Transcription Complete") after a wl-copy that succeeded,
\* notify("Output Failed", critical=True) in the except branch
OutputCalls(r) ==
  CASE r = "ok" -> <<"wl-copy", "notify">>
    [] r = "missing" -> <<"notify_critical">>
    [] r = "exit_nonzero" -> <<"wl-copy", "notify_critical">>

\* transcribe: wl-copy and the notification that follows it
Output ==
  /\ mpc = "output"
  /\ \E r \in SinkOutcomes :
       /\ calls' = calls \o OutputCalls(r)
       /\ Finish(IF r = "ok" THEN "complete" ELSE "output_failed")
  /\ why' = "never"
  /\ UNCHANGED <<fs, running, active, path_queue, model, idle, pipe, ci,
                 stops, writes, stream, enq, deq, cleanups, removed,
                 unlinkRaised, stopInFlight, atStop>>
  /\ UNCHANGED listenerVars

\* the order of the for loop of cleanup
CleanupOrder == <<FIFO_PATH, PID_FILE, READY_FILE>>

\* cleanup: the two flags
CleanupFlags ==
  /\ mpc = "cleanup"
  /\ running' = FALSE
  /\ active' = FALSE
  /\ cleanups' = cleanups + 1
  /\ ci' = 1
  /\ mpc' = "unlink"
  /\ UNCHANGED <<fs, path_queue, model, idle, pipe, filepath, text, stops,
                 writes, stream, enq, deq, proc, inflight, calls, outcome,
                 why, removed, unlinkRaised, stopInFlight, atStop>>
  /\ UNCHANGED listenerVars

\* cleanup: one round of the for loop
CleanupUnlink ==
  /\ mpc = "unlink"
  /\ LET p == CleanupOrder[ci] IN
       /\ fs' = [fs EXCEPT ![p] = "absent"]
       /\ removed' = [removed EXCEPT
                         ![p] = IF fs[p] # "absent" THEN @ + 1 ELSE @]
       /\ unlinkRaised' = (unlinkRaised \/ CleanupUnlinkRaises(fs[p]))
  /\ IF ci = Len(CleanupOrder)
     THEN /\ ci' = 0
          /\ mpc' = "cleaned"
     ELSE /\ ci' = ci + 1
          /\ mpc' = "unlink"
  /\ UNCHANGED <<running, active, path_queue, model, idle, pipe, filepath,
                 text, stops, writes, stream, enq, deq, proc, inflight, calls,
                 outcome, why, cleanups, stopInFlight, atStop>>
  /\ UNCHANGED listenerVars

\* start returns and the process ends; the FifoReader is a daemon thread and
\* ends with it wherever it is
ProcessExit ==
  /\ mpc = "cleaned"
  /\ mpc' = "exited"
  /\ lpc' = IF lpc \in {"done", "crashed"} THEN lpc ELSE "killed"
  /\ fd' = FALSE
  /\ UNCHANGED <<fs, running, active, path_queue, model, idle, pipe, data,
                 pending, filepath, text, ci, stops, writes>>
  /\ UNCHANGED histVars

\* Stop with a stop() that runs cleanup itself, inside the handler
StopRunsCleanup ==
  /\ mpc \notin {"start", "exited"}
  /\ stops < MaxStops
  /\ running' = FALSE
  /\ active' = FALSE
  /\ stops' = stops + 1
  /\ stopInFlight' = (stopInFlight \/ inflight # <<>>)
  /\ atStop' = IF stops = 0 THEN [inGet |-> mpc = "get", got |-> Len(deq)]
                ELSE atStop
  /\ cleanups' = cleanups + 1
  /\ fs' = [p \in Artifacts |-> "absent"]
  /\ removed' = [p \in Artifacts |->
                  IF fs[p] # "absent" THEN removed[p] + 1 ELSE removed[p]]
  /\ UNCHANGED <<path_queue, model, idle, mpc, pipe, filepath, text, ci,
                 writes>>
  /\ UNCHANGED listenerVars
  /\ UNCHANGED <<stream, enq, deq, proc, inflight, calls, outcome, why,
                 unlinkRaised>>

\* stop, run by the handler of SIGTERM and SIGINT in the main thread
Stop ==
  /\ mpc \notin {"start", "exited"}
  /\ stops < MaxStops
  /\ running' = FALSE
  /\ stops' = stops + 1
  /\ stopInFlight' = (stopInFlight \/ inflight # <<>>)
  /\ atStop' = IF stops = 0 THEN [inGet |-> mpc = "get", got |-> Len(deq)]
                ELSE atStop
  /\ UNCHANGED <<fs, active, path_queue, model, idle, mpc, pipe, filepath,
                 text, ci, writes>>
  /\ UNCHANGED listenerVars
  /\ UNCHANGED <<stream, enq, deq, proc, inflight, calls, outcome, why,
                 cleanups, removed, unlinkRaised>>

(* ---------------- the FifoReader thread: FifoReader.run ---------------- *)
listenerHist == <<stream, deq, proc, inflight, calls, outcome, why, cleanups,
                  removed, unlinkRaised, stopInFlight, atStop>>

\* run: while self.active, read where the previous statement ends: the
\* thread waits in poll.poll, or the loop is left
LLoopHead(a) == IF a THEN "poll" ELSE "close"

\* run: if not self.fifo_path.exists()
LExists ==
  /\ lpc = "run" /\ mpc # "exited"
  /\ lpc' = IF fs[FIFO_PATH] = "absent" THEN "mkfifo" ELSE "open"
  /\ UNCHANGED <<fs, running, active, path_queue, model, idle, mpc, fd, pipe,
                 data, pending, filepath, text, ci, stops, writes>>
  /\ UNCHANGED histVars

\* run: os.mkfifo, which raises FileExistsError when the path exists
LMkfifo ==
  /\ lpc = "mkfifo" /\ mpc # "exited"
  /\ IF fs[FIFO_PATH] = "absent"
     THEN /\ fs' = [fs EXCEPT ![FIFO_PATH] = "fifo"]
          /\ lpc' = "open"
     ELSE /\ fs' = fs
          /\ lpc' = "crashed"
  /\ UNCHANGED <<running, active, path_queue, model, idle, mpc, fd, pipe,
                 data, pending, filepath, text, ci, stops, writes>>
  /\ UNCHANGED histVars

\* run: os.open, which raises FileNotFoundError when the path is absent, and
\* the registration with poll
LOpen ==
  /\ lpc = "open" /\ mpc # "exited"
  /\ IF fs[FIFO_PATH] = "absent"
     THEN /\ fd' = FALSE
          /\ lpc' = "crashed"
     ELSE /\ fd' = TRUE
          /\ lpc' = LLoopHead(active)
  /\ UNCHANGED <<fs, running, active, path_queue, model, idle, mpc, pipe,
                 data, pending, filepath, text, ci, stops, writes>>
  /\ UNCHANGED histVars

\* run: poll.poll(500) returns nothing
LPollTimeout ==
  /\ lpc = "poll" /\ mpc # "exited"
  /\ pipe = <<>>
  /\ lpc' = LLoopHead(active)
  /\ UNCHANGED <<fs, running, active, path_queue, model, idle, mpc, fd, pipe,
                 data, pending, filepath, text, ci, stops, writes>>
  /\ UNCHANGED histVars

\* run: poll.poll(500) reports the pipe readable; data = b""
LPollReady ==
  /\ lpc = "poll" /\ mpc # "exited"
  /\ pipe # <<>>
  /\ data' = <<>>
  /\ lpc' = "read"
  /\ UNCHANGED <<fs, running, active, path_queue, model, idle, mpc, fd, pipe,
                 pending, filepath, text, ci, stops, writes>>
  /\ UNCHANGED histVars

\* run: os.read(fd, 4096) returns a chunk
LRead ==
  /\ lpc = "read" /\ mpc # "exited"
  /\ pipe # <<>>
  /\ LET n == Min(Len(pipe), READ_SIZE) IN
       /\ data' = data \o SubSeq(pipe, 1, n)
       /\ pipe' = SubSeq(pipe, n + 1, Len(pipe))
  /\ UNCHANGED <<fs, running, active, path_queue, model, idle, mpc, lpc, fd,
                 pending, filepath, text, ci, stops, writes>>
  /\ UNCHANGED histVars

\* run: os.read raises BlockingIOError: the burst is over and is split into
\* its clean paths
LDrained ==
  /\ lpc = "read" /\ mpc # "exited"
  /\ pipe = <<>>
  /\ pending' = CleanPaths(data)
  /\ data' = <<>>
  /\ lpc' = IF pending' = <<>> THEN LLoopHead(active) ELSE "put"
  /\ UNCHANGED <<fs, running, active, path_queue, model, idle, mpc, fd, pipe,
                 filepath, text, ci, stops, writes>>
  /\ UNCHANGED histVars

\* Full of a queue.Queue() without maxsize
NeverFull(q) == FALSE

\* queue.Queue(maxsize=QUEUE_SIZE): whether a put has to wait
Full(q) == Len(q) >= QUEUE_SIZE

\* run: self.path_queue.put(clean_path), which blocks while the queue is full
LPut ==
  /\ lpc = "put" /\ mpc # "exited"
  /\ ~Full(path_queue)
  /\ path_queue' = Append(path_queue, Head(pending))
  /\ enq' = Append(enq, Head(pending))
  /\ pending' = Tail(pending)
  /\ lpc' = IF pending' = <<>> THEN LLoopHead(active) ELSE "put"
  /\ UNCHANGED <<fs, running, active, model, idle, mpc, fd, pipe, data,
                 filepath, text, ci, stops, writes>>
  /\ UNCHANGED listenerHist

\* run: os.close(fd)
LClose ==
  /\ lpc = "close" /\ mpc # "exited"
  /\ fd' = FALSE
  /\ lpc' = "done"
  /\ UNCHANGED <<fs, running, active, path_queue, model, idle, mpc, pipe,
                 data, pending, filepath, text, ci, stops, writes>>
  /\ UNCHANGED histVars

(* ---------------- the clients of the pipe ---------------- *)
\* a client writes one line to the pipe the FifoReader holds open
Write ==
  /\ fd
  /\ writes < MaxWrites
  /\ pipe' = pipe \o LineOf(stream[writes + 1])
  /\ writes' = writes + 1
  /\ UNCHANGED <<fs, running, active, path_queue, model, idle, mpc, filepath,
                 text, ci, stops>>
  /\ UNCHANGED listenerVars
  /\ UNCHANGED histVars

\* a client writes the bytes of its next write, which end where it likes
WriteBytes ==
  /\ fd
  /\ writes < Len(stream)
  /\ pipe' = pipe \o stream[writes + 1]
  /\ writes' = writes + 1
  /\ UNCHANGED <<fs, running, active, path_queue, model, idle, mpc, filepath,
                 text, ci, stops>>
  /\ UNCHANGED listenerVars
  /\ UNCHANGED histVars

Next ==
  \/ StartPid \/ StartFixFifo \/ StartListener \/ StartReady
  \/ GetItem \/ GetEmpty \/ GetModel \/ Recognize \/ Output
  \/ CleanupFlags \/ CleanupUnlink \/ ProcessExit \/ Stop
  \/ LExists \/ LMkfifo \/ LOpen \/ LPollTimeout \/ LPollReady
  \/ LRead \/ LDrained \/ LPut \/ LClose
  \/ Write

Spec == Init /\ [][Next]_vars

\* the daemon with no stop signal and clients that cut their bytes into
\* writes as they like
InitBytes == InitOf(ByteStreams)

NextBytes ==
  \/ StartPid \/ StartFixFifo \/ StartListener \/ StartReady
  \/ GetItem \/ GetEmpty \/ GetModel \/ Recognize \/ Output
  \/ CleanupFlags \/ CleanupUnlink \/ ProcessExit
  \/ LExists \/ LMkfifo \/ LOpen \/ LPollTimeout \/ LPollReady
  \/ LRead \/ LDrained \/ LPut \/ LClose
  \/ WriteBytes

SpecBytes == InitBytes /\ [][NextBytes]_vars

(* ---------------- properties ---------------- *)
Transcribing == {"get_model", "recognize", "output"}
CleaningUp == {"cleanup", "unlink", "cleaned", "exited"}
Outcomes == {"missing", "complete", "empty", "failed", "output_failed",
             "error"}

\* C1: the items are got, and brought to their outcomes, in the order the
\* FifoReader put them: what was put is what was got followed by what the
\* queue holds, and what was got is what was processed followed by the item
\* in flight.
C1_Fifo ==
  /\ enq = deq \o path_queue
  /\ deq = proc \o inflight

\* C1 witness: three items processed in order while a fourth is in flight and
\* a fifth waits in the queue
C1_Witness ==
  /\ Len(proc) >= 3
  /\ inflight # <<>>
  /\ path_queue # <<>>

\* C2: at most one item is in flight; the thread waits in path_queue.get only
\* when no item is in flight and the item of the previous get has its outcome;
\* a load or inference call is made for the one item in flight only.
C2_SingleFlight ==
  /\ Len(inflight) <= 1
  /\ mpc = "get" => inflight = <<>> /\ (deq # <<>> => outcome \in Outcomes)
  /\ mpc \in Transcribing <=> inflight # <<>>
  /\ inflight # <<>> => inflight = <<filepath>> /\ outcome = "none"
  /\ Len(deq) = Len(proc) + Len(inflight)

\* C2 witness: one item is inside model.recognize while others wait in the
\* queue
C2_Witness ==
  /\ mpc = "recognize"
  /\ Len(inflight) = 1
  /\ Len(path_queue) >= 2

\* the paths the clients have written so far
Written == [k \in 1..writes |-> <<stream[k]>>]

\* C3: the queue never holds more than QUEUE_SIZE items; no path is dropped or
\* rejected on the way into it (the paths written are those put, those the
\* FifoReader still has to put and those not yet read); and while the queue
\* holds QUEUE_SIZE items the FifoReader puts nothing and gives nothing up.
C3_BoundedBlockingQueue ==
  /\ [](/\ Len(path_queue) <= QUEUE_SIZE
        /\ Written = enq \o pending \o CleanPaths(data \o pipe)
        /\ lpc = "put" => pending # <<>>)
  /\ [][Len(path_queue) = QUEUE_SIZE /\ lpc = "put"
        => enq' = enq /\ pending' = pending]_vars

\* C3 witness: the queue holds QUEUE_SIZE items and the FifoReader waits in
\* put with a further path
C3_Witness ==
  /\ Len(path_queue) = QUEUE_SIZE
  /\ lpc = "put"
  /\ pending # <<>>

\* C4: cleanup starts, and a path is removed, only when no item is in flight;
\* an item in flight when a stop signal comes is brought to its outcome
\* before: once cleanup has started, every item got has been processed.
C4_StopLetsItemFinish ==
  /\ [](mpc \in CleaningUp => inflight = <<>> /\ Len(proc) = Len(deq))
  /\ [][(\/ cleanups' # cleanups
         \/ \E p \in Artifacts : fs[p] # "absent" /\ fs'[p] = "absent")
        => inflight = <<>> /\ mpc \notin Transcribing]_vars

\* C4 witness: a stop signal came while an item was in flight, the item was
\* transcribed and copied, and cleanup then removed the paths
C4_Witness ==
  /\ stopInFlight
  /\ mpc = "cleaned"
  /\ outcome = "complete"
  /\ removed[PID_FILE] = 1 /\ removed[READY_FILE] = 1

\* C5: however many stop signals come, cleanup runs at most once, and exactly
\* once by the time start returns; no unlink raises, also for a path that is
\* absent; each path is removed at most once.
C5_CleanupOnce ==
  /\ cleanups <= 1
  /\ mpc \in {"unlink", "cleaned", "exited"} <=> cleanups = 1
  /\ \A p \in Artifacts : removed[p] <= 1
  /\ ~unlinkRaised

\* C5 witness: two stop signals, cleanup done, the pipe was already absent
\* when cleanup came to it
C5_Witness ==
  /\ stops >= 2
  /\ mpc = "cleaned"
  /\ cleanups = 1
  /\ removed[FIFO_PATH] = 0
  /\ removed[PID_FILE] = 1

\* C6: whenever the readiness marker exists, the FifoReader has created the
\* pipe and opened it: it is past os.open.
C6_ReadyImpliesListening ==
  fs[READY_FILE] = "file" => lpc \in {"poll", "read", "put", "close", "done"}

\* C7: once cleanup has completed, none of the pipe, the PID marker and the
\* readiness marker exists, then or later.
C7_NothingLeftAfterCleanup ==
  mpc \in {"cleaned", "exited"} => \A p \in Artifacts : fs[p] = "absent"

Has(s, x) == \E i \in 1..Len(s) : s[i] = x

\* a step of the main thread that is a get that timed out followed by
\* check_idle: taken in path_queue.get with the queue empty, and neither a stop
\* signal, a client's write nor a step of the FifoReader
IdleCheckStep ==
  /\ mpc = "get" /\ path_queue = <<>>
  /\ UNCHANGED <<stops, writes, fs, path_queue, pipe, lpc, fd, data, pending>>

\* C8: an idle check made more than IDLE_TIMEOUT after the last use of a
\* loaded model releases it, and no other does; between two items the model
\* is released at most once, and the idle checks that follow find it absent
\* and do nothing; the next item whose file exists makes exactly one load,
\* before its inference.
C8_IdleReleaseThenOneLoad ==
  /\ [](/\ Count(calls, "unload") <= 1
        /\ Has(calls, "unload") =>
             model = None /\ why = "idle" /\ calls[Len(calls)] = "unload"
        /\ Count(calls, "load") <= 1
        /\ why = "idle" /\ mpc \in {"recognize", "output"} =>
             model = Loaded /\ calls[1] = "load")
  /\ [][IdleCheckStep =>
         /\ model = Loaded /\ idle' > IDLE_TIMEOUT =>
              model' = None /\ calls' = Append(calls, "unload")
         /\ model = Loaded /\ idle' <= IDLE_TIMEOUT =>
              model' = Loaded /\ calls' = calls
         /\ model = None => model' = None /\ calls' = calls]_vars

\* C8 witness: the model was released by an idle check, and the next item
\* whose file exists has loaded it again and is about to be recognized
C8_Witness ==
  /\ why = "idle"
  /\ mpc = "recognize"
  /\ calls = <<"load">>
  /\ model = Loaded

\* C9: after a load or inference call has failed for an item, exactly one
\* critical notification has been sent for it, nothing was handed to wl-copy
\* and no completion was notified, the model is absent, and the thread is
\* back in path_queue.get unless a stop was asked for; the next item whose
\* file exists starts with a load.
C9_FailureIsolated ==
  /\ outcome = "failed" =>
       /\ model = None /\ why = "failed"
       /\ Count(calls, "notify_critical") = 1
       /\ ~Has(calls, "wl-copy") /\ ~Has(calls, "notify")
       /\ inflight = <<>>
       /\ mpc \in {"get"} \cup CleaningUp
       /\ running => mpc = "get"
  /\ why = "failed" /\ mpc \in {"recognize", "output"} =>
       model = Loaded /\ calls[1] = "load"

\* C9 witness: model.recognize failed for an item with the model loaded, the
\* next item was got and has loaded a new model
C9_Witness ==
  /\ why = "failed"
  /\ mpc = "recognize"
  /\ calls = <<"load">>
  /\ model = Loaded
  /\ Len(proc) >= 2

\* C10: an item whose file does not exist when it is got causes no load, no
\* inference, no wl-copy and no notification; it is dropped and the thread is
\* back in path_queue.get unless a stop was asked for.
C10_MissingFileDiscarded ==
  outcome = "missing" =>
    /\ \A i \in 1..Len(calls) : calls[i] = "unload"
    /\ inflight = <<>> /\ filepath = NoPath
    /\ mpc \in {"get"} \cup CleaningUp
    /\ running => mpc = "get"
    /\ Len(proc) = Len(deq)

\* C10 witness: with the model loaded, an item whose file is missing was got
\* and dropped, and the thread waits for the next
C10_Witness ==
  /\ outcome = "missing"
  /\ model = Loaded
  /\ mpc = "get"
  /\ calls = <<>>
  /\ Len(deq) >= 2

\* the characters of some bytes: those that are text
TextOf(b) == SelectSeq(b, LAMBDA c : c \notin Invalid)

\* the lines of a text, read from the left: acc holds the lines that have
\* ended and cur the line that has not
RECURSIVE ScanLines(_, _, _)
ScanLines(t, cur, acc) ==
  IF t = <<>> THEN (IF cur = <<>> THEN acc ELSE Append(acc, cur))
  ELSE IF Head(t) \in LineBreaks
       THEN ScanLines(Tail(t), <<>>, Append(acc, cur))
       ELSE ScanLines(Tail(t), Append(cur, Head(t)), acc)

RECURSIVE TrimLeft(_)
TrimLeft(l) ==
  IF l # <<>> /\ Head(l) \in Whitespace THEN TrimLeft(Tail(l)) ELSE l

Reverse(l) == [i \in 1..Len(l) |-> l[Len(l) + 1 - i]]

\* a line without the whitespace around it
Trim(l) == Reverse(TrimLeft(Reverse(TrimLeft(l))))

\* the lines of some bytes, trimmed, those left empty taken out
TrimmedLines(b) ==
  LET ls == ScanLines(TextOf(b), <<>>, <<>>)
  IN SelectSeq([i \in 1..Len(ls) |-> Trim(ls[i])], LAMBDA l : l # <<>>)

RECURSIVE Flatten(_)
Flatten(ws) == IF ws = <<>> THEN <<>> ELSE Head(ws) \o Flatten(Tail(ws))

\* the step of the FifoReader that ends a burst
BurstEnds == lpc = "read" /\ lpc' \in {"poll", "put", "close"}

\* C11: however the clients cut their bytes into writes, and however the
\* writes fall into polls and reads, the items put are the trimmed lines of
\* the whole stream that are not empty, one item a line: once every write
\* has been read and put, enq is the lines of the bytes written.
C11_LinesOfWholeStream ==
  /\ writes = Len(stream) /\ lpc = "poll"
  /\ pipe = <<>> /\ pending = <<>>
  => enq = TrimmedLines(Flatten(stream))

\* C16: the items put for one burst are the lines of the burst, trimmed,
\* the empty ones left out, in their order: the burst's end leaves exactly
\* these to put, each put takes the first of them into the queue, and nothing
\* else changes what is put; two lines in one burst give two items in that
\* order, and a burst that is whitespace only gives none.
C16_BurstLines ==
  /\ [][BurstEnds =>
          (/\ pending' = TrimmedLines(data) /\ enq' = enq
           /\ data = <<"a", "\n", "b", "\n">> =>
                pending' = << <<"a">>, <<"b">> >>
           /\ (\A i \in 1..Len(data) : data[i] \in Whitespace) =>
                pending' = <<>> /\ lpc' # "put")]_vars
  /\ [][enq' # enq =>
          (/\ lpc = "put" /\ pending # <<>>
           /\ enq' = Append(enq, Head(pending))
           /\ path_queue' = Append(path_queue, Head(pending))
           /\ pending' = Tail(pending))]_vars
  /\ [][pending' # pending => BurstEnds \/ enq' # enq]_vars
  /\ [](lpc \in {"poll", "read", "close", "done"} => pending = <<>>)

\* C16 witness: one write held two lines, and the two paths were put in
\* the order of the lines
C16_Witness ==
  /\ writes = 1
  /\ stream[1] = <<"a", "\n", "b", "\n">>
  /\ enq = << <<"a">>, <<"b">> >>
  /\ lpc = "poll"

\* C12: every item the FifoReader puts is got once and brought to one outcome,
\* none is lost. Stated on the states the program ends in, where nothing is
\* got any more: when the process has exited, and no exists() raised, the
\* items processed are the items put.
C12_EveryItemConsumed ==
  mpc = "exited" /\ outcome # "error" => proc = enq

\* C13: after a stop signal the FifoReader, wherever it is in its loop (in
\* poll.poll, reading a burst, waiting in put), reads active as false, leaves
\* the loop and closes the descriptor. Stated on the step that ends the
\* thread otherwise: a FifoReader that is in its loop is not ended by the end
\* of the process.
C13_ListenerClosesAfterStop ==
  [][stops > 0 /\ lpc \in {"poll", "read", "put"} => lpc' # "killed"]_vars

\* C14: after a stop signal the main thread leaves its loop and cleanup runs:
\* when cleanup completes, running and the FifoReader's active are false and
\* none of the pipe, the PID marker and the readiness marker exists.
C14_StopEndsInCleanup ==
  [][stops > 0 /\ mpc = "unlink" /\ mpc' = "cleaned"
       => (/\ ~running' /\ ~active'
           /\ \A p \in Artifacts : fs'[p] = "absent")]_vars

\* C15: the main thread leaves its loop, and cleanup starts, only after a
\* stop signal: whatever happens to an item, without a stop the thread stays
\* in the loop.
C15_LoopEndsOnlyOnStop ==
  mpc \in CleaningUp => stops > 0

\* C17: an item whose inference returns a text that is empty once normalized
\* causes no wl-copy and no notification and leaves the model loaded (until
\* an idle check releases it), and the thread is back in path_queue.get
\* unless a stop was asked for; a text handed to the output block is never
\* empty and carries no surrounding whitespace.
C17_EmptyResultNoOp ==
  /\ outcome = "empty" =>
       /\ Has(calls, "recognize")
       /\ ~Has(calls, "wl-copy")
       /\ ~Has(calls, "notify") /\ ~Has(calls, "notify_critical")
       /\ model = Loaded \/ (Has(calls, "unload") /\ why = "idle")
       /\ inflight = <<>> /\ text = <<>>
       /\ mpc \in {"get"} \cup CleaningUp
       /\ running => mpc = "get"
  /\ mpc = "output" =>
       /\ text # <<>>
       /\ text[1] \notin Whitespace /\ text[Len(text)] \notin Whitespace

\* C17 witness: the second item got was recognized with the model the first
\* had loaded, its text was empty, and the thread waits for the next item
\* with the model still loaded
C17_Witness ==
  /\ outcome = "empty"
  /\ calls = <<"recognize">>
  /\ model = Loaded
  /\ mpc = "get"
  /\ path_queue # <<>>

\* C18: an item whose text could not be handed to wl-copy (not in PATH, or
\* exit status not zero) has exactly one critical notification and no
\* completion notification, the model stays loaded (until an idle check
\* releases it), and the thread is back in path_queue.get unless a stop was
\* asked for; an item whose text was copied has exactly one notification,
\* which is not critical.
C18_SinkFailureReported ==
  /\ outcome = "output_failed" =>
       /\ Count(calls, "notify_critical") = 1
       /\ ~Has(calls, "notify")
       /\ model = Loaded \/ (Has(calls, "unload") /\ why = "idle")
       /\ inflight = <<>>
       /\ mpc \in {"get"} \cup CleaningUp
       /\ running => mpc = "get"
  /\ outcome = "complete" =>
       /\ Count(calls, "wl-copy") = 1
       /\ Count(calls, "notify") = 1
       /\ ~Has(calls, "notify_critical")

\* C18 witness: wl-copy was not in PATH for an item, the model is still
\* loaded and the thread waits in path_queue.get with a further item queued
C18_Witness ==
  /\ outcome = "output_failed"
  /\ ~Has(calls, "wl-copy")
  /\ model = Loaded
  /\ running /\ mpc = "get"
  /\ path_queue # <<>>

\* C19: a loaded model that no item is using is released once more than
\* IDLE_TIMEOUT has passed since it was last acquired, whatever arrives on the
\* queue, also items that are discarded because their file is missing.
\* Stated for one iteration of the loop, a continuing stream of such items
\* being a behaviour made of these iterations only: an iteration that starts
\* with the model loaded and the time passed, and discards a missing item,
\* releases the model.
C19_IdleModelReleased ==
  [][/\ mpc = "get" /\ running
     /\ model = Loaded /\ idle > IDLE_TIMEOUT
     /\ Len(deq') > Len(deq) /\ outcome' = "missing"
     => model' = None]_vars

\* C20: after the first stop signal the main thread gets at most one further
\* item, and only when the signal came while it was in path_queue.get; once
\* cleanup has started it stays started, nothing is got, processed, loaded or
\* notified any more, and what the queue holds stays in it.
C20_AtMostOneGetAfterStop ==
  /\ [](stops > 0 =>
          /\ Len(deq) <= atStop.got + 1
          /\ Len(deq) > atStop.got => atStop.inGet)
  /\ [][(mpc \in CleaningUp) =>
          (/\ mpc' \in CleaningUp
           /\ deq' = deq /\ proc' = proc
           /\ calls' = calls /\ model' = model
           /\ Len(path_queue') >= Len(path_queue)
           /\ SubSeq(path_queue', 1, Len(path_queue)) = path_queue)]_vars

\* C20 witness: the stop signal came while the thread was in path_queue.get,
\* one more item was got and copied, and the process has exited with items
\* left in the queue
C20_Witness ==
  /\ stops > 0
  /\ atStop.inGet
  /\ Len(deq) = atStop.got + 1
  /\ outcome = "complete"
  /\ mpc = "exited"
  /\ path_queue # <<>>

====
